---- MODULE Spec2Model ----
(***************************************************************************)
(* Model of git2go's clone bridge (clone.go): Clone, the exported          *)
(* remoteCreateCallback trampoline, populateCloneOptions and               *)
(* freeCloneOptions, with the native engine (git_clone) as an opaque       *)
(* collaborator and pointerHandles as the process-wide handle registry.    *)
(* Several Clone calls run concurrently, one goroutine each.               *)
(***************************************************************************)
EXTENDS Integers, Sequences, FiniteSets, TLC

(* ------------------------------ bounds -------------------------------- *)

\* number of concurrent Clone calls
NumCalls == 2

Calls == 1 .. NumCalls

\* payload tokens the registry can hand out; 0 is the NULL payload
Tokens == 1 .. NumCalls

(* ----------------------- values crossing the bridge -------------------- *)

ErrorCodeOK == 0
ErrorCodeUser == -7
ErrorCodeNotFound == -3

\* codes git_clone may return
NativeCodes == {ErrorCodeUser, ErrorCodeNotFound, ErrorCodeOK}

\* codes a managed RemoteCreateCallback may return
CallbackCodes == {ErrorCodeNotFound, ErrorCodeOK}

\* a C pointer to a buffer is a sequence: <<>> is NULL, <<s>> holds s
NULL == <<>>

CString(s) == <<s>>

\* branch names a caller may ask for; "" means none
BranchNames == {"", "dev"}

\* RemoteCreateCallback field: 0 is nil, c is the closure supplied by call c
NoCallback == 0

\* *CloneOptions == nil
NilOptions == [nil |-> TRUE, CheckoutBranch |-> "", RemoteCreateCallback |-> NoCallback]

\* the configurations call c may pass to Clone
Configs(c) ==
    {NilOptions} \cup
    [nil : {FALSE}, CheckoutBranch : BranchNames, RemoteCreateCallback : {NoCallback, c}]

\* Go's nil error
NoError == [kind |-> "nil", code |-> 0, text |-> ""]

\* ErrorCode(ret).String(): the textual description of a result code
ErrorCodeString(code) ==
    CASE code = ErrorCodeOK -> "OK"
      [] code = ErrorCodeUser -> "User"
      [] code = ErrorCodeNotFound -> "NotFound"
      [] OTHER -> "Unknown"

\* errors.New(text)
ErrorsNew(t) == [kind |-> "errorString", code |-> 0, text |-> t]

\* MakeGitError(ret): the engine's generic error for a code
MakeGitError(code) == [kind |-> "GitError", code |-> code, text |-> ""]

\* a nil *Repository / *Remote, and the native pointers of call c
NilHandle == [nil |-> TRUE, ptr |-> 0, finalizer |-> FALSE]

RepoPtr(c) == c

RemotePtr(c) == c

\* newRepositoryFromC(ptr): an owned wrapper, freed by its finalizer
newRepositoryFromC(p) == [nil |-> FALSE, ptr |-> p, finalizer |-> TRUE]

\* a *Remote as the managed callback constructs it (owned, with finalizer)
NewRemote(p) == [nil |-> FALSE, ptr |-> p, finalizer |-> TRUE]

\* what the callback supplied by call c may hand back as its remote
CallbackRemotes(c) == {NilHandle, NewRemote(RemotePtr(c))}

\* native resources and scoped acquisitions of one Clone call
Resources ==
    {"curl", "cpath", "checkout_branch", "handle", "checkout_opts", "fetch_opts", "thread"}

NoResources == [r \in Resources |-> 0]

\* add one to the count of every resource named in the sequence rs
RECURSIVE Count(_, _)
Count(counts, rs) ==
    IF rs = <<>> THEN counts
    ELSE Count([counts EXCEPT ![Head(rs)] = @ + 1], Tail(rs))

(* --------------------------- handle registry --------------------------- *)

\* the token the next Track returns: one no live entry has (the lowest such;
\* a released token is handed out again), 0 when none is left
NewToken(h) ==
    IF Tokens \subseteq DOMAIN h THEN 0
    ELSE CHOOSE t \in Tokens \ DOMAIN h : \A u \in Tokens \ DOMAIN h : t <= u

\* pointerHandles.Track(data) with the fresh token tok
Track(h, tok, d) == (tok :> d) @@ h

\* pointerHandles.Get(tok)
Get(h, tok) ==
    IF tok \in DOMAIN h THEN [ok |-> TRUE, data |-> h[tok]]
    ELSE [ok |-> FALSE, data |-> [options |-> 0, errorTarget |-> 0]]

\* pointerHandles.Untrack(tok)
Untrack(h, tok) == [t \in (DOMAIN h) \ {tok} |-> h[t]]

(* --------------------------- option translator ------------------------- *)

\* the nil *C.git_clone_options
NilCOptions ==
    [nil |-> TRUE, remote_cb |-> FALSE, remote_cb_payload |-> 0, checkout_branch |-> NULL]

\* fault: the hook is wired whether or not a callback was supplied
WantsCallback_Always(opts) == TRUE

\* opts.RemoteCreateCallback != nil, for a non-nil opts
WantsCallback(opts) == opts.RemoteCreateCallback # NoCallback

\* fault: every entry captures into one shared slot (here call 1's)
populateCloneOptions_SharedErr(opts, c, tok) ==
    IF opts.nil
    THEN [ptr |-> NilCOptions, allocated |-> <<>>, track |-> FALSE,
          data |-> [options |-> 0, errorTarget |-> 0]]
    ELSE IF WantsCallback(opts)
    THEN [ptr |-> [nil |-> FALSE, remote_cb |-> TRUE, remote_cb_payload |-> tok,
                   checkout_branch |-> NULL],
          allocated |-> <<"checkout_opts", "fetch_opts", "handle">>, track |-> TRUE,
          data |-> [options |-> c, errorTarget |-> 1]]
    ELSE [ptr |-> [nil |-> FALSE, remote_cb |-> FALSE, remote_cb_payload |-> 0,
                   checkout_branch |-> NULL],
          allocated |-> <<"checkout_opts", "fetch_opts">>, track |-> FALSE,
          data |-> [options |-> 0, errorTarget |-> 0]]

\* populateCloneOptions(ptr, opts, errorTarget) of call c, tok being the token
\* Track would return: the pointer it returns, the sub-translators it ran and
\* the entry it registers
populateCloneOptions(opts, c, tok) ==
    IF opts.nil
    THEN [ptr |-> NilCOptions, allocated |-> <<>>, track |-> FALSE,
          data |-> [options |-> 0, errorTarget |-> 0]]
    ELSE IF WantsCallback(opts)
    THEN [ptr |-> [nil |-> FALSE, remote_cb |-> TRUE, remote_cb_payload |-> tok,
                   checkout_branch |-> NULL],
          allocated |-> <<"checkout_opts", "fetch_opts", "handle">>, track |-> TRUE,
          data |-> [options |-> c, errorTarget |-> c]]
    ELSE [ptr |-> [nil |-> FALSE, remote_cb |-> FALSE, remote_cb_payload |-> 0,
                   checkout_branch |-> NULL],
          allocated |-> <<"checkout_opts", "fetch_opts">>, track |-> FALSE,
          data |-> [options |-> 0, errorTarget |-> 0]]

\* fault: the registered entry is never unregistered
freeCloneOptions_LeakHandle(ptr) ==
    IF ptr.nil THEN <<>>
    ELSE <<"checkout_opts">>
         \o (IF ptr.checkout_branch # NULL THEN <<"checkout_branch">> ELSE <<>>)

\* fault: the checkout sub-options are left to someone else to release
freeCloneOptions_NoCheckout(ptr) ==
    IF ptr.nil THEN <<>>
    ELSE (IF ptr.remote_cb_payload # 0 THEN <<"handle">> ELSE <<>>)
         \o (IF ptr.checkout_branch # NULL THEN <<"checkout_branch">> ELSE <<>>)

\* freeCloneOptions(ptr): the resources it releases, in order
freeCloneOptions(ptr) ==
    IF ptr.nil THEN <<>>
    ELSE <<"checkout_opts">>
         \o (IF ptr.remote_cb_payload # 0 THEN <<"handle">> ELSE <<>>)
         \o (IF ptr.checkout_branch # NULL THEN <<"checkout_branch">> ELSE <<>>)

(* --------------------------- Clone's own steps ------------------------- *)

\* fault: the branch override is dropped
CloneBranchOverride_Never(cOpts, opts) == cOpts

\* Clone, lines 36-38: a non-empty CheckoutBranch replaces the branch field
CloneBranchOverride(cOpts, opts) ==
    IF opts.CheckoutBranch # ""
    THEN [cOpts EXCEPT !.checkout_branch = CString(opts.CheckoutBranch)]
    ELSE cOpts

\* fault: the captured error is not consulted
InterpretResult_GenericOnly(r, e, p) ==
    IF r < 0 THEN [repo |-> NilHandle, err |-> MakeGitError(r)]
    ELSE [repo |-> newRepositoryFromC(p), err |-> NoError]

\* Clone, lines 46-53: the value Clone returns for git_clone's code ret, the
\* captured error e and the repository pointer p
InterpretResult(r, e, p) ==
    IF r = ErrorCodeUser /\ e # NoError THEN [repo |-> NilHandle, err |-> e]
    ELSE IF r < 0 THEN [repo |-> NilHandle, err |-> MakeGitError(r)]
    ELSE [repo |-> newRepositoryFromC(p), err |-> NoError]

\* fault: the path buffer is never freed
DeferredCall_NoPath(d, cOpts) ==
    CASE d = "free_curl" -> <<"curl">>
      [] d = "free_cpath" -> <<>>
      [] d = "freeCloneOptions" -> freeCloneOptions(cOpts)
      [] d = "UnlockOSThread" -> <<"thread">>

\* fault: the thread unlock is not deferred
DeferredCall_NoUnlock(d, cOpts) ==
    CASE d = "free_curl" -> <<"curl">>
      [] d = "free_cpath" -> <<"cpath">>
      [] d = "freeCloneOptions" -> freeCloneOptions(cOpts)
      [] d = "UnlockOSThread" -> <<>>

\* the resources one deferred call releases
DeferredCall(d, cOpts) ==
    CASE d = "free_curl" -> <<"curl">>
      [] d = "free_cpath" -> <<"cpath">>
      [] d = "freeCloneOptions" -> freeCloneOptions(cOpts)
      [] d = "UnlockOSThread" -> <<"thread">>

\* the deferred calls of Clone run last-registered first
RECURSIVE RunDefers(_, _)
RunDefers(stack, cOpts) ==
    IF stack = <<>> THEN <<>>
    ELSE DeferredCall(stack[Len(stack)], cOpts)
         \o RunDefers(SubSeq(stack, 1, Len(stack) - 1), cOpts)

(* ------------------------------ trampoline ----------------------------- *)

\* runtime.SetFinalizer(obj, nil): obj must point to an allocated object,
\* otherwise the runtime may abort the program
SetFinalizerOutcomes(obj) == IF obj.nil THEN {"throw", "ok"} ELSE {"ok"}

\* fault: the finalizer is left in place
ClearFinalizer_Kept(obj) == obj

ClearFinalizer(obj) == IF obj.nil THEN obj ELSE [obj EXCEPT !.finalizer = FALSE]

\* fault: a success code without a remote is reported as an ordinary failure
remoteCreateCallback_SoftNil(remote, code, fin) ==
    IF fin = "throw"
    THEN [exit |-> "throw", ret |-> <<>>, remote |-> remote,
          captured |-> <<>>, out |-> 0]
    ELSE IF code < 0
    THEN [exit |-> "return", ret |-> <<ErrorCodeUser>>, remote |-> remote,
          captured |-> <<ErrorsNew(ErrorCodeString(code))>>, out |-> 0]
    ELSE IF remote.nil
    THEN [exit |-> "return", ret |-> <<ErrorCodeUser>>, remote |-> remote,
          captured |-> <<>>, out |-> 0]
    ELSE [exit |-> "return", ret |-> <<ErrorCodeOK>>,
          remote |-> [remote EXCEPT !.finalizer = FALSE],
          captured |-> <<>>, out |-> remote.ptr]

\* remoteCreateCallback, lines 77-91: what the trampoline does with the
\* (remote, code) its callback returned, fin being SetFinalizer's outcome
remoteCreateCallback(remote, code, fin) ==
    IF fin = "throw"
    THEN [exit |-> "throw", ret |-> <<>>, remote |-> remote,
          captured |-> <<>>, out |-> 0]
    ELSE IF code < 0
    THEN [exit |-> "return", ret |-> <<ErrorCodeUser>>, remote |-> ClearFinalizer(remote),
          captured |-> <<ErrorsNew(ErrorCodeString(code))>>, out |-> 0]
    ELSE IF remote.nil
    THEN [exit |-> "panic", ret |-> <<>>, remote |-> ClearFinalizer(remote),
          captured |-> <<>>, out |-> 0]
    ELSE [exit |-> "return", ret |-> <<ErrorCodeOK>>, remote |-> ClearFinalizer(remote),
          captured |-> <<>>, out |-> remote.ptr]

\* fault: the payload is ignored and the first live entry is used
ResolvePayload_First(h, payload) ==
    IF DOMAIN h = {} THEN Get(h, payload)
    ELSE Get(h, CHOOSE t \in DOMAIN h : \A u \in DOMAIN h : t <= u)

\* remoteCreateCallback, lines 69-72: the entry the payload token resolves to
ResolvePayload(h, payload) == Get(h, payload)

(* -------------------------------- state -------------------------------- *)

VARIABLES
    pc,             \* where each Clone call is
    options,        \* the *CloneOptions each call was given
    cOptions,       \* the *C.git_clone_options each call holds
    err,            \* Clone's local err, the error-capture slot
    deferred,       \* the deferred calls each call has registered
    allocs,         \* how often each call acquired each resource
    frees,          \* how often each call released each resource
    handles,        \* pointerHandles: token -> cloneCallbackData
    nativeCalls,    \* how often each call invoked git_clone
    trampolineCalls,\* how often the engine invoked the trampoline in each call
    ret,            \* git_clone's return code, <<>> before it returns
    ptr,            \* the *C.git_repository git_clone filled in
    result,         \* what Clone returned, <<>> before it returns
    data,           \* the entry the trampoline resolved, <<>> if none
    invoked,        \* the callback the trampoline invoked (NoCallback if none)
    cbRepo,         \* the repository wrapper handed to the callback
    cbRemote,       \* the remote wrapper the callback returned
    cbRet,          \* the code the callback returned, <<>> if none
    cremote,        \* what was written through the output parameter, 0 if nothing
    trampRet,       \* the code the trampoline returned to the engine, <<>> if none
    strayPayload    \* the trampoline was handed a token the registry did not hold

vars ==
    <<pc, options, cOptions, err, deferred, allocs, frees, handles, nativeCalls,
      trampolineCalls, ret, ptr, result, data, invoked, cbRepo, cbRemote, cbRet,
      cremote, trampRet, strayPayload>>

trampVars ==
    <<data, invoked, cbRepo, cbRemote, cbRet, cremote, trampRet, trampolineCalls,
      strayPayload>>

Init ==
    /\ pc = [c \in Calls |-> "idle"]
    /\ options = [c \in Calls |-> NilOptions]
    /\ cOptions = [c \in Calls |-> NilCOptions]
    /\ err = [c \in Calls |-> NoError]
    /\ deferred = [c \in Calls |-> <<>>]
    /\ allocs = [c \in Calls |-> NoResources]
    /\ frees = [c \in Calls |-> NoResources]
    /\ handles = <<>>
    /\ nativeCalls = [c \in Calls |-> 0]
    /\ trampolineCalls = [c \in Calls |-> 0]
    /\ ret = [c \in Calls |-> <<>>]
    /\ ptr = [c \in Calls |-> 0]
    /\ result = [c \in Calls |-> <<>>]
    /\ data = [c \in Calls |-> <<>>]
    /\ invoked = [c \in Calls |-> NoCallback]
    /\ cbRepo = [c \in Calls |-> NilHandle]
    /\ cbRemote = [c \in Calls |-> NilHandle]
    /\ cbRet = [c \in Calls |-> <<>>]
    /\ cremote = [c \in Calls |-> 0]
    /\ trampRet = [c \in Calls |-> <<>>]
    /\ strayPayload = [c \in Calls |-> FALSE]

\* a runtime throw ends the whole process: no goroutine runs after it
Running == \A c \in Calls : pc[c] # "aborted"

\* fault: freeCloneOptions is called at line 34 instead of being deferred
CloneStart_FreeNotDeferred(c, o) ==
    /\ Running
    /\ pc[c] = "idle"
    /\ LET tok == NewToken(handles)
           res == populateCloneOptions(o, c, tok) IN
          /\ res.track => tok # 0
          /\ cOptions' = [cOptions EXCEPT ![c] = res.ptr]
          /\ allocs' = [allocs EXCEPT ![c] = Count(@, <<"curl", "cpath">> \o res.allocated)]
          /\ frees' = [frees EXCEPT ![c] = Count(@, freeCloneOptions(res.ptr))]
    /\ handles' = handles
    /\ options' = [options EXCEPT ![c] = o]
    /\ err' = [err EXCEPT ![c] = NoError]
    /\ deferred' = [deferred EXCEPT ![c] = <<"free_curl", "free_cpath">>]
    /\ pc' = [pc EXCEPT ![c] = "populated"]
    /\ UNCHANGED <<nativeCalls, ret, ptr, result, trampVars>>

\* Clone, lines 26-34: the url and path buffers, err, option translation
\* (with Track when a callback is supplied) and the three deferred releases
CloneStart(c, o) ==
    /\ Running
    /\ pc[c] = "idle"
    /\ LET tok == NewToken(handles)
           res == populateCloneOptions(o, c, tok) IN
          /\ res.track => tok # 0
          /\ cOptions' = [cOptions EXCEPT ![c] = res.ptr]
          /\ handles' = IF res.track THEN Track(handles, tok, res.data) ELSE handles
          /\ allocs' = [allocs EXCEPT ![c] = Count(@, <<"curl", "cpath">> \o res.allocated)]
    /\ options' = [options EXCEPT ![c] = o]
    /\ err' = [err EXCEPT ![c] = NoError]
    /\ deferred' = [deferred EXCEPT ![c] = <<"free_curl", "free_cpath", "freeCloneOptions">>]
    /\ pc' = [pc EXCEPT ![c] = "populated"]
    /\ UNCHANGED <<frees, nativeCalls, ret, ptr, result, trampVars>>

\* Clone's deferred calls (lines 41, 34, 30, 27) run when Clone returns and
\* when a panic unwinds it; how is "done" or "panicked". Clone's frame is
\* gone afterwards, and its local cOptions with it
Unwind(c, how) ==
    LET released == RunDefers(deferred[c], cOptions[c]) IN
    /\ frees' = [frees EXCEPT ![c] = Count(@, released)]
    /\ handles' = IF \E i \in 1 .. Len(released) : released[i] = "handle"
                  THEN Untrack(handles, cOptions[c].remote_cb_payload)
                  ELSE handles
    /\ deferred' = [deferred EXCEPT ![c] = <<>>]
    /\ cOptions' = [cOptions EXCEPT ![c] = NilCOptions]
    /\ pc' = [pc EXCEPT ![c] = how]

\* Clone, lines 36-38: options.CheckoutBranch is read through the caller's
\* pointer, a nil pointer dereference when options is nil
CloneSetBranch(c) ==
    /\ Running
    /\ pc[c] = "populated"
    /\ IF options[c].nil
       THEN /\ Unwind(c, "panicked")
            /\ UNCHANGED allocs
       ELSE LET new == CloneBranchOverride(cOptions[c], options[c]) IN
            /\ cOptions' = [cOptions EXCEPT ![c] = new]
            /\ allocs' = [allocs EXCEPT ![c] =
                             IF new.checkout_branch # cOptions[c].checkout_branch
                             THEN Count(@, <<"checkout_branch">>) ELSE @]
            /\ pc' = [pc EXCEPT ![c] = "ready"]
            /\ UNCHANGED <<deferred, frees, handles>>
    /\ UNCHANGED <<options, err, nativeCalls, ret, ptr, result, trampVars>>

\* Clone, lines 40-44: lock the OS thread, defer the unlock, call git_clone
CloneInvokeNative(c) ==
    /\ Running
    /\ pc[c] = "ready"
    /\ allocs' = [allocs EXCEPT ![c] = Count(@, <<"thread">>)]
    /\ deferred' = [deferred EXCEPT ![c] = Append(@, "UnlockOSThread")]
    /\ nativeCalls' = [nativeCalls EXCEPT ![c] = @ + 1]
    /\ pc' = [pc EXCEPT ![c] = "native"]
    /\ UNCHANGED <<options, cOptions, err, frees, handles, ret, ptr, result, trampVars>>

\* remoteCreateCallback, lines 63-72, entered from call c's git_clone with
\* the given payload: wrap the engine's repository, drop the wrapper's
\* finalizer, resolve the payload or panic
TrampolineWith(c, payload) ==
    /\ Running
    /\ pc[c] = "native"
    /\ cOptions[c].remote_cb
    /\ trampolineCalls[c] = 0
    /\ trampolineCalls' = [trampolineCalls EXCEPT ![c] = @ + 1]
    /\ strayPayload' = [strayPayload EXCEPT ![c] = payload \notin DOMAIN handles]
    /\ cbRepo' = [cbRepo EXCEPT ![c] = ClearFinalizer(newRepositoryFromC(RepoPtr(c)))]
    /\ LET got == ResolvePayload(handles, payload) IN
          IF got.ok
          THEN /\ data' = [data EXCEPT ![c] = <<got.data>>]
               /\ pc' = [pc EXCEPT ![c] = "callback"]
               /\ UNCHANGED <<cOptions, deferred, frees, handles>>
          ELSE /\ data' = data
               /\ Unwind(c, "panicked")
    /\ UNCHANGED <<options, err, allocs, nativeCalls, ret, ptr, result,
                   invoked, cbRemote, cbRet, cremote, trampRet>>

\* git_clone reaches remote creation and calls the installed hook with the
\* payload field of the options it was given
TrampolineEnter(c) == TrampolineWith(c, cOptions[c].remote_cb_payload)

\* the hook is called with a payload the registry does not hold: NULL, or a
\* token never issued or already untracked
TrampolineStray(c, payload) ==
    /\ payload \notin DOMAIN handles
    /\ TrampolineWith(c, payload)

\* remoteCreateCallback, lines 74-91: the resolved entry's callback runs and
\* returns (remote, code); the trampoline hands a code back to the engine,
\* panics, or is aborted by the runtime
TrampolineCallback(c, remote, code) ==
    /\ Running
    /\ pc[c] = "callback"
    /\ LET d == data[c][1]
           cb == options[d.options].RemoteCreateCallback IN
       /\ remote \in CallbackRemotes(cb)
       /\ invoked' = [invoked EXCEPT ![c] = cb]
       /\ cbRet' = [cbRet EXCEPT ![c] = <<code>>]
       /\ \E fin \in SetFinalizerOutcomes(remote) :
             LET out == remoteCreateCallback(remote, code, fin) IN
             /\ cbRemote' = [cbRemote EXCEPT ![c] = out.remote]
             /\ trampRet' = [trampRet EXCEPT ![c] = out.ret]
             /\ cremote' = [cremote EXCEPT ![c] = out.out]
             /\ err' = IF out.captured # <<>>
                       THEN [err EXCEPT ![d.errorTarget] = out.captured[1]]
                       ELSE err
             /\ CASE out.exit = "return" ->
                       /\ pc' = [pc EXCEPT ![c] = "native"]
                       /\ UNCHANGED <<cOptions, deferred, frees, handles>>
                  [] out.exit = "panic" -> Unwind(c, "panicked")
                  [] out.exit = "throw" ->
                       /\ pc' = [pc EXCEPT ![c] = "aborted"]
                       /\ UNCHANGED <<cOptions, deferred, frees, handles>>
    /\ UNCHANGED <<options, allocs, nativeCalls, trampolineCalls, ret, ptr,
                   result, data, cbRepo, strayPayload>>

\* Clone, lines 46-53 and its deferred calls: choose the value to return for
\* git_clone's code and unwind
ReturnFromNative(c, code) ==
    /\ LET p == IF code >= 0 THEN RepoPtr(c) ELSE 0 IN
       /\ ret' = [ret EXCEPT ![c] = <<code>>]
       /\ ptr' = [ptr EXCEPT ![c] = p]
       /\ result' = [result EXCEPT ![c] = <<InterpretResult(code, err[c], p)>>]
    /\ Unwind(c, "done")
    /\ UNCHANGED <<options, err, allocs, nativeCalls, trampVars>>

\* fault: a failed git_clone is tried again
CloneNativeReturn_Retry(c, code) ==
    /\ Running
    /\ pc[c] = "native"
    /\ IF code < 0
       THEN /\ pc' = [pc EXCEPT ![c] = "ready"]
            /\ ret' = [ret EXCEPT ![c] = <<code>>]
            /\ UNCHANGED <<options, cOptions, err, deferred, allocs, frees, handles,
                           nativeCalls, ptr, result, trampVars>>
       ELSE ReturnFromNative(c, code)

\* git_clone returns a code, and a repository pointer when it succeeded;
\* Clone, lines 44-53, chooses the value to return and its deferred calls run
CloneNativeReturn(c, code) ==
    /\ Running
    /\ pc[c] = "native"
    /\ ReturnFromNative(c, code)

Next ==
    \/ \E c \in Calls : \E o \in Configs(c) : CloneStart(c, o)
    \/ \E c \in Calls : CloneSetBranch(c)
    \/ \E c \in Calls : CloneInvokeNative(c)
    \/ \E c \in Calls : TrampolineEnter(c)
    \/ \E c \in Calls : \E code \in CallbackCodes :
          \E remote \in UNION {CallbackRemotes(d) : d \in Calls} :
             TrampolineCallback(c, remote, code)
    \/ \E c \in Calls : \E code \in NativeCodes : CloneNativeReturn(c, code)

Spec == Init /\ [][Next]_vars

\* the same program with an engine that may also hand the trampoline a
\* payload the registry does not hold
NextStray ==
    \/ Next
    \/ \E c \in Calls : \E payload \in Tokens \cup {0} : TrampolineStray(c, payload)

SpecStray == Init /\ [][NextStray]_vars

TypeOK ==
    /\ pc \in [Calls -> {"idle", "populated", "ready", "native", "callback",
                         "done", "panicked", "aborted"}]
    /\ DOMAIN handles \subseteq Tokens

(* ------------------------------- claims -------------------------------- *)

Started(c) == pc[c] # "idle"

InFlight(c) == pc[c] \in {"populated", "ready", "native", "callback"}

Faulted(c) == pc[c] \in {"panicked", "aborted"}

\* the callback of call c has returned (remote, code)
CallbackReturned(c) == cbRet[c] # <<>>

\* C1: once the callback has returned a negative code, with or without a
\* remote, Clone does not fault, and when git_clone hands the trampoline's
\* code back Clone returns the error made from the callback's code
C1_CallbackErrorReturned ==
    \A c \in Calls :
        (CallbackReturned(c) /\ cbRet[c][1] < 0) =>
            /\ ~Faulted(c)
            /\ (pc[c] = "done" /\ ret[c] = trampRet[c]) =>
                  /\ result[c][1].err = ErrorsNew(ErrorCodeString(cbRet[c][1]))
                  /\ result[c][1].repo.nil

\* C2: a Clone call given a nil configuration does not fault; it reaches
\* git_clone once, without a hook, and returns a repository or an error
C2_NilConfigUsesDefaults ==
    \A c \in Calls :
        (Started(c) /\ options[c].nil) =>
            /\ ~Faulted(c)
            /\ trampolineCalls[c] = 0
            /\ pc[c] = "done" => (nativeCalls[c] = 1 /\ result[c] # <<>>)

ScopedResources == {"curl", "cpath", "checkout_branch", "handle"}

\* C3: no buffer or registry entry of a call is released more often than it
\* was acquired, none is acquired twice, and once Clone has returned (or a
\* panic has unwound it) every one acquired has been released and the
\* registry holds no entry of the call
C3_ReleasedExactlyOnce ==
    \A c \in Calls :
        /\ \A r \in ScopedResources :
              /\ allocs[c][r] <= 1
              /\ frees[c][r] <= allocs[c][r]
              /\ pc[c] \in {"done", "panicked"} => frees[c][r] = allocs[c][r]
        /\ pc[c] \in {"done", "panicked"} =>
              \A t \in DOMAIN handles : handles[t].options # c

\* C3's case: a call with a branch and a callback whose callback failed has
\* returned its error with all four resources released
C3_Witness ==
    \E c \in Calls :
        /\ pc[c] = "done"
        /\ cbRet[c] = <<ErrorCodeNotFound>>
        /\ ~result[c][1].err = NoError
        /\ \A r \in ScopedResources : allocs[c][r] = 1 /\ frees[c][r] = 1

\* C4: every step of a call whose configuration has no callback leaves the
\* registry as it was, with the hook and the payload unset, the trampoline
\* never invoked and nothing tracked or untracked by the call
C4_NoCallbackNoRegistry ==
    [][\A c \in Calls :
          (options'[c].RemoteCreateCallback = NoCallback /\ pc'[c] # pc[c]) =>
              /\ handles' = handles
              /\ ~cOptions'[c].remote_cb
              /\ cOptions'[c].remote_cb_payload = 0
              /\ trampolineCalls'[c] = 0
              /\ allocs'[c]["handle"] = 0
              /\ frees'[c]["handle"] = 0]_vars

\* C4's case: a call with a configuration but no callback has returned while
\* the registry holds another call's entry
C4_Witness ==
    \E c \in Calls :
        /\ pc[c] = "done"
        /\ ~options[c].nil
        /\ options[c].RemoteCreateCallback = NoCallback
        /\ DOMAIN handles # {}

\* C5: Clone's result follows from git_clone's code and the captured error:
\* the captured error for the sentinel with an error captured, the generic
\* error for any other negative code, an owned repository otherwise
C5_ResultByCodeAndCapture ==
    \A c \in Calls :
        pc[c] = "done" =>
            LET r == ret[c][1]
                res == result[c][1] IN
            /\ (r = ErrorCodeUser /\ err[c] # NoError) =>
                  (res.err = err[c] /\ res.repo.nil)
            /\ (r < 0 /\ ~(r = ErrorCodeUser /\ err[c] # NoError)) =>
                  (res.err = [kind |-> "GitError", code |-> r, text |-> ""] /\ res.repo.nil)
            /\ r >= 0 =>
                  /\ res.err = NoError
                  /\ res.repo = [nil |-> FALSE, ptr |-> ptr[c], finalizer |-> TRUE]

\* C5's cases: one call returned its captured error for the sentinel, another
\* returned a repository although an error was captured
C5_Witness ==
    \E c, d \in Calls :
        /\ pc[c] = "done" /\ ret[c] = <<ErrorCodeUser>> /\ err[c] # NoError
        /\ result[c][1].err = err[c]
        /\ pc[d] = "done" /\ ret[d] = <<ErrorCodeOK>> /\ err[d] # NoError
        /\ ~result[d][1].repo.nil

\* C6: every trampoline invocation resolves its payload to the entry its own
\* call registered and invokes its own call's callback
C6_NoCrossTalk ==
    \A c \in Calls :
        /\ data[c] # <<>> => (data[c][1].options = c /\ data[c][1].errorTarget = c)
        /\ invoked[c] # NoCallback => invoked[c] = options[c].RemoteCreateCallback

\* C6's case: two calls are in flight together, each after its own callback ran
C6_Witness ==
    \E c, d \in Calls :
        /\ c # d
        /\ pc[c] = "native" /\ pc[d] = "native"
        /\ invoked[c] = c /\ invoked[d] = d
        /\ cOptions[c].remote_cb_payload # cOptions[d].remote_cb_payload

\* C7: when the callback returned a success code and no remote, the
\* trampoline has aborted: no code went back to the engine, nothing was
\* written through the output parameter, and Clone returned nothing
C7_SuccessWithoutRemoteAborts ==
    \A c \in Calls :
        (CallbackReturned(c) /\ cbRet[c][1] >= 0 /\ cbRemote[c].nil) =>
            /\ Faulted(c)
            /\ trampRet[c] = <<>>
            /\ cremote[c] = 0
            /\ result[c] = <<>>

\* C7's case: the trampoline panicked on a success code without a remote
C7_Witness ==
    \E c \in Calls :
        /\ cbRet[c] = <<ErrorCodeOK>>
        /\ cbRemote[c].nil
        /\ pc[c] = "panicked"

\* C8: when the callback returned a success code and a remote, then once the
\* trampoline is back in the engine the remote's finalizer is cleared, its
\* native pointer is in the output parameter and the code returned is OK
C8_SuccessHandsRemoteOver ==
    \A c \in Calls :
        (CallbackReturned(c) /\ cbRet[c][1] >= 0 /\ ~cbRemote[c].nil) =>
            /\ ~cbRemote[c].finalizer
            /\ cremote[c] = cbRemote[c].ptr
            /\ cremote[c] # 0
            /\ trampRet[c] = <<ErrorCodeOK>>

\* C8's case: the engine is running again after a successful callback
C8_Witness ==
    \E c \in Calls :
        /\ pc[c] = "native"
        /\ cbRet[c] = <<ErrorCodeOK>>
        /\ cremote[c] = RemotePtr(c)

\* C9: while git_clone runs, the branch field holds the configuration's
\* CheckoutBranch when that is non-empty and is NULL, as translation left
\* it, when it is empty
C9_BranchFieldAtInvocation ==
    \A c \in Calls :
        pc[c] \in {"native", "callback"} =>
            IF options[c].CheckoutBranch # ""
            THEN cOptions[c].checkout_branch = <<options[c].CheckoutBranch>>
            ELSE cOptions[c].checkout_branch = NULL

\* C9's case: git_clone runs with the branch the caller asked for
C9_Witness ==
    \E c \in Calls :
        /\ pc[c] = "native"
        /\ options[c].CheckoutBranch = "dev"
        /\ cOptions[c].checkout_branch = <<"dev">>

\* C10: no call invokes git_clone twice, and a call in the engine or back
\* from it has invoked it exactly once
C10_NativeInvokedOnce ==
    \A c \in Calls :
        /\ nativeCalls[c] <= 1
        /\ (pc[c] \in {"native", "callback"} \/ ret[c] # <<>>) => nativeCalls[c] = 1

\* C10's case: a call whose callback failed and whose engine returned the
\* sentinel has returned after one invocation
C10_Witness ==
    \E c \in Calls :
        /\ pc[c] = "done"
        /\ ret[c] = <<ErrorCodeUser>>
        /\ cbRet[c] = <<ErrorCodeNotFound>>
        /\ nativeCalls[c] = 1

\* the OS thread locks call c holds
ThreadLocks(c) == allocs[c]["thread"] - frees[c]["thread"]

\* C11: a call holds exactly one thread lock while git_clone runs, the
\* trampoline included, never unlocks more often than it locked, and holds
\* no lock once it has returned or a panic has unwound it
C11_ThreadLockedThroughNative ==
    \A c \in Calls :
        /\ ThreadLocks(c) \in {0, 1}
        /\ pc[c] \in {"native", "callback"} => ThreadLocks(c) = 1
        /\ pc[c] \in {"idle", "populated", "ready"} => allocs[c]["thread"] = 0
        /\ pc[c] \in {"done", "panicked"} => ThreadLocks(c) = 0
        /\ pc[c] = "done" => (allocs[c]["thread"] = 1 /\ frees[c]["thread"] = 1)

\* C11's case: a call returned its captured callback error with the thread
\* locked once and unlocked once
C11_Witness ==
    \E c \in Calls :
        /\ pc[c] = "done"
        /\ result[c][1].err.kind = "errorString"
        /\ allocs[c]["thread"] = 1
        /\ frees[c]["thread"] = 1

\* C12 as stated: the sub-options the checkout and fetch translators
\* produced are never released by a Clone call (freeCloneOptions is the only
\* release of translated options Clone runs)
C12_SubOptionsNeverReleased ==
    \A c \in Calls : frees[c]["checkout_opts"] = 0 /\ frees[c]["fetch_opts"] = 0

\* C12 amended: freeCloneOptions leaves the fetch sub-options alone but
\* releases the checkout sub-options, once, through freeCheckoutOptions,
\* besides unregistering the handle and freeing the branch buffer
C12_ReleasesCheckoutNotFetch ==
    \A c \in Calls :
        /\ frees[c]["fetch_opts"] = 0
        /\ frees[c]["checkout_opts"] <= allocs[c]["checkout_opts"]
        /\ pc[c] \in {"done", "panicked"} =>
              /\ frees[c]["checkout_opts"] = allocs[c]["checkout_opts"]
              /\ frees[c]["handle"] = allocs[c]["handle"]
              /\ frees[c]["checkout_branch"] = allocs[c]["checkout_branch"]
        /\ pc[c] = "done" => frees[c]["checkout_opts"] = 1

\* C12's case: a call's options were released: checkout sub-options, handle
\* and branch buffer once each, fetch sub-options not at all
C12_Witness ==
    \E c \in Calls :
        /\ pc[c] = "done"
        /\ allocs[c]["fetch_opts"] = 1 /\ frees[c]["fetch_opts"] = 0
        /\ frees[c]["checkout_opts"] = 1
        /\ frees[c]["handle"] = 1
        /\ frees[c]["checkout_branch"] = 1

\* C13: when the callback returned a negative code together with a remote,
\* the remote keeps its finalizer and the output parameter stays unwritten
C13_FailedCallbackKeepsOwnership ==
    \A c \in Calls :
        (CallbackReturned(c) /\ cbRet[c][1] < 0 /\ ~cbRemote[c].nil) =>
            /\ cbRemote[c].finalizer
            /\ cremote[c] = 0

\* the registry tokens whose entry belongs to call c
EntriesOf(c) == {t \in DOMAIN handles : handles[t].options = c}

\* call c is between option translation and its release; a call the runtime
\* aborted never reaches its release
HoldsOptions(c) == InFlight(c) \/ pc[c] = "aborted"

SuppliesCallback(c) == options[c].RemoteCreateCallback # NoCallback

\* C14: a call that supplies a callback has, from translation to release,
\* exactly one registry entry, under the token in its payload field, and no
\* other such call holds that token; every other call has no entry
C14_OneEntryPerCallbackCall ==
    \A c \in Calls :
        /\ IF HoldsOptions(c) /\ SuppliesCallback(c)
           THEN /\ Cardinality(EntriesOf(c)) = 1
                /\ cOptions[c].remote_cb_payload \in EntriesOf(c)
           ELSE EntriesOf(c) = {}
        /\ \A d \in Calls \ {c} :
              (HoldsOptions(c) /\ SuppliesCallback(c) /\ HoldsOptions(d) /\ SuppliesCallback(d))
                  => cOptions[c].remote_cb_payload # cOptions[d].remote_cb_payload

\* C14's case: one call is in the engine and another has just translated its
\* options, each holding its own entry under its own token
C14_Witness ==
    \E c, d \in Calls :
        /\ c # d
        /\ pc[c] = "native" /\ SuppliesCallback(c)
        /\ pc[d] = "populated" /\ SuppliesCallback(d)
        /\ Cardinality(DOMAIN handles) = 2
        /\ cOptions[c].remote_cb_payload # cOptions[d].remote_cb_payload

\* C15: a trampoline handed a payload that resolves to no entry has
\* panicked: no callback was invoked, nothing was written through the output
\* parameter and no code went back to the engine
C15_UnresolvedPayloadPanics ==
    \A c \in Calls :
        strayPayload[c] =>
            /\ pc[c] = "panicked"
            /\ data[c] = <<>>
            /\ invoked[c] = NoCallback
            /\ cbRet[c] = <<>>
            /\ cremote[c] = 0
            /\ trampRet[c] = <<>>
            /\ result[c] = <<>>

\* C15's case: a trampoline was handed an unknown token while another call's
\* entry was live, and panicked
C15_Witness ==
    \E c, d \in Calls :
        /\ c # d
        /\ strayPayload[c]
        /\ trampolineCalls[c] = 1
        /\ pc[c] = "panicked"
        /\ EntriesOf(d) # {}

\* C16: from the moment the trampoline is entered, before the callback runs
\* and on every way out, the repository wrapper made for the callback wraps
\* the engine's repository and has no finalizer
C16_CallbackRepositoryBorrowed ==
    \A c \in Calls :
        IF trampolineCalls[c] > 0
        THEN /\ ~cbRepo[c].nil
             /\ cbRepo[c].ptr = RepoPtr(c)
             /\ ~cbRepo[c].finalizer
        ELSE cbRepo[c].nil /\ invoked[c] = NoCallback

\* C16's case: the callback is about to run with the borrowed wrapper
C16_Witness ==
    \E c \in Calls :
        /\ pc[c] = "callback"
        /\ invoked[c] = NoCallback
        /\ cbRepo[c].ptr = RepoPtr(c)
        /\ ~cbRepo[c].finalizer

\* C17: a call that has returned its repository or its error has no deferred
\* call left to run: the url and path buffers are freed, its options are
\* released (entry untracked, branch buffer freed) and the thread is unlocked
C17_TerminalAfterReleases ==
    \A c \in Calls :
        (pc[c] = "done" \/ result[c] # <<>>) =>
            /\ pc[c] = "done"
            /\ result[c] # <<>>
            /\ deferred[c] = <<>>
            /\ frees[c]["curl"] = 1
            /\ frees[c]["cpath"] = 1
            /\ frees[c]["thread"] = 1
            /\ frees[c]["checkout_opts"] = 1
            /\ frees[c]["handle"] = (IF SuppliesCallback(c) THEN 1 ELSE 0)
            /\ frees[c]["checkout_branch"] = (IF options[c].CheckoutBranch # "" THEN 1 ELSE 0)
            /\ EntriesOf(c) = {}

\* C17's case: a call with a callback and a branch returned its repository
C17_Witness ==
    \E c \in Calls :
        /\ pc[c] = "done"
        /\ ~result[c][1].repo.nil
        /\ SuppliesCallback(c)
        /\ options[c].CheckoutBranch = "dev"
        /\ frees[c]["handle"] = 1
        /\ frees[c]["thread"] = 1

\* C18: while git_clone runs, the trampoline included, nothing of the call
\* has been released: the url, path and branch buffers are allocated, the
\* translated options are intact and the entry is tracked under the payload
\* token; so no trampoline of the call was ever handed an unresolvable payload
C18_NothingReleasedInFlight ==
    \A c \in Calls :
        /\ pc[c] \in {"native", "callback"} =>
              /\ \A r \in Resources : frees[c][r] = 0
              /\ allocs[c]["curl"] = 1 /\ allocs[c]["cpath"] = 1
              /\ allocs[c]["checkout_branch"] = (IF options[c].CheckoutBranch # "" THEN 1 ELSE 0)
              /\ SuppliesCallback(c) =>
                    /\ cOptions[c].remote_cb_payload \in DOMAIN handles
                    /\ handles[cOptions[c].remote_cb_payload].options = c
        /\ ~strayPayload[c]
        /\ trampolineCalls[c] > 0 => data[c] # <<>>

\* C18's case: the trampoline of a call resolved its entry from inside
\* git_clone while another call had already released everything
C18_Witness ==
    \E c, d \in Calls :
        /\ pc[c] = "callback"
        /\ data[c] = <<[options |-> c, errorTarget |-> c]>>
        /\ allocs[c]["checkout_branch"] = 1
        /\ pc[d] = "done"
        /\ frees[d]["handle"] = 1

\* C19: the error in a call's capture slot, and a captured error a call
\* returns, was made by that call's own trampoline from the negative code its
\* own callback returned; a call whose callback did not fail has an empty slot
C19_CaptureSlotIsCallLocal ==
    \A c \in Calls :
        /\ err[c] # NoError =>
              /\ CallbackReturned(c)
              /\ cbRet[c][1] < 0
              /\ invoked[c] = c
              /\ err[c] = [kind |-> "errorString", code |-> 0,
                           text |-> ErrorCodeString(cbRet[c][1])]
        /\ (result[c] # <<>> /\ result[c][1].err.kind = "errorString") =>
              /\ result[c][1].err = err[c]
              /\ CallbackReturned(c)
              /\ cbRet[c][1] < 0

\* C19's case: one call returned its captured error while another, whose
\* callback succeeded in the meantime, returned a repository with its slot empty
C19_Witness ==
    \E c, d \in Calls :
        /\ c # d
        /\ pc[c] = "done"
        /\ result[c][1].err.kind = "errorString"
        /\ pc[d] = "done"
        /\ cbRet[d] = <<ErrorCodeOK>>
        /\ err[d] = NoError
        /\ ~result[d][1].repo.nil

====
